---- MODULE Spec2Model ----
(***************************************************************************)
(* Workflow orchestration engine of the network automation factory:        *)
(* OrchestratorAgent.process_automation_request and _refinement_loop,      *)
(* together with the Session (context store), the MetricsCollector request *)
(* log and the SessionManager memory bank that the run mutates.            *)
(*                                                                         *)
(* One action is the code of the coroutine between two suspension points   *)
(* (await): it consumes the outcome of the collaborator call that was      *)
(* awaited, runs the synchronous code that follows, and issues the next    *)
(* collaborator call.  Collaborators (parser, generators, reviewer) are    *)
(* external: each call returns or raises, chosen nondeterministically, and  *)
(* the counters they keep for themselves in session.metrics (agent_calls,  *)
(* artifacts, tokens_used, refinements) are not represented; the engine    *)
(* itself never writes session.metrics.  Timestamps, durations and file    *)
(* contents are not represented either.                                    *)
(***************************************************************************)
EXTENDS Integers, Sequences, FiniteSets, TLC

VARIABLES
    pc,             \* suspension point of process_automation_request
    artifacts,      \* local dict artifacts: artifact type -> path
    errors,         \* local list errors
    session,        \* the Session created for the run
    metrics,        \* MetricsCollector.metrics
    memory_bank,    \* SessionManager.memory_bank
    bank_order,     \* the run ids of memory_bank in the order of the dict
    tasks,          \* the two coroutines handed to asyncio.gather
    calls,          \* collaborator invocations of the run, in order
    iteration,      \* _refinement_loop: iteration
    current_playbook, \* _refinement_loop: current_playbook["file_path"]
    refined_result, \* _refinement_loop: refined_result["file_path"]
    review_result,  \* critical_issues of the review the next prompt uses
    validation,     \* outcome of _validate_artifacts
    results,        \* AutomationResult objects returned to the caller
    metrics_path,   \* MetricsCollector.metrics_file: the path it saves to
    metrics_file,   \* content of the file at metrics_path
    op,             \* the last Session / MetricsCollector operation called
                    \* directly, with its arguments and the object before it
    traces,         \* Tracer.traces: run id -> list of spans
    tally           \* what the caller of a Session has passed to it so far:
                    \* the number of add_context calls and, per counter
                    \* name, the amounts given to increment_metric

vars == <<pc, artifacts, errors, session, metrics, memory_bank, bank_order,
          tasks, calls,
          iteration, current_playbook, refined_result, review_result,
          validation, results, metrics_path, metrics_file, op, traces, tally>>

\* the locals and collaborators of process_automation_request
runVars == <<pc, artifacts, errors, memory_bank, bank_order, tasks, calls,
             iteration,
             current_playbook, refined_result, review_result, validation,
             results>>

-----------------------------------------------------------------------------
(* Bounds and program constants *)

\* largest critical_issues count a review reports
MaxCritical == 2

\* entries a collector log holds (requests, agent calls and errors together)
MaxLog == 3

\* add_context calls made on a context store used on its own
MaxHistory == 4

\* largest keep_recent passed to compact_context
MaxKeep == 3

\* increment_metric calls made on a session used on its own
MaxIncrements == 3

\* spans started on a tracer
MaxSpans == 3

\* add_context calls made on a live session between two store_session calls
\* of a session manager used on its own
MaxTouches == 2

\* max_iterations passed to _refinement_loop
max_iterations == 3

\* keep_recent passed to compact_context by the refinement loop
loop_keep_recent == 3

\* session id of the request
SessionId == "run1"

-----------------------------------------------------------------------------
(* Values *)

EmptyMap == [k \in {} |-> 0]

Range(s) == {s[i] : i \in 1..Len(s)}

\* a file location; refined counts the "_refined" suffixes of a playbook
Path(file, n) == [file |-> file, refined |-> n]

NoPath == Path("", 0)

\* the dict a collaborator returns, as stored in the context
DictValue(p) == [type |-> "dict", ref |-> p]

TypeName(v) == v.type

\* a str stored in the context
StrValue(x) == [type |-> "str", ref |-> x]

PlaybookPath == Path("playbook.yml", 0)

InventoryPath == Path("inventory/hosts.yml", 0)

DocPath == Path("README.md", 0)

TestDir == Path("tests", 0)

PipelinePath == Path("pipeline", 0)

SpecValue == DictValue(Path("parsed_spec", 0))

\* refined_path = playbook_path.replace(".yml", "_refined.yml")
RefinedPath(p) == [p EXCEPT !.refined = @ + 1]

\* report_path: named after the reviewed playbook
ReportPath(p) == Path("review.md", p.refined)

-----------------------------------------------------------------------------
(* Session (context store) *)

NewSession(sid) ==
    [session_id |-> sid, context |-> EmptyMap, metrics |-> EmptyMap,
     history |-> <<>>, metadata |-> EmptyMap]

\* an overwrite leaves no history entry
add_context_quietOverwrite(s, key, value) ==
    IF key \in DOMAIN s.context
    THEN [s EXCEPT !.context = (key :> value) @@ @]
    ELSE [s EXCEPT !.context = (key :> value) @@ @,
                   !.history = Append(@, [action |-> "context_added",
                                          key |-> key])]

add_context(s, key, value) ==
    [s EXCEPT !.context = (key :> value) @@ @,
              !.history = Append(@, [action |-> "context_added", key |-> key])]

get_context(s, key, default) ==
    IF key \in DOMAIN s.context THEN s.context[key] ELSE default

\* the counter is set to the amount instead of raised by it
increment_metric_set(s, name, amount) ==
    [s EXCEPT !.metrics = (name :> amount) @@ @]

increment_metric(s, name, amount) ==
    LET old == IF name \in DOMAIN s.metrics THEN s.metrics[name] ELSE 0
    IN  [s EXCEPT !.metrics = (name :> (old + amount)) @@ @]

get_metric(s, name, default) ==
    IF name \in DOMAIN s.metrics THEN s.metrics[name] ELSE default

\* the scan of history from newest to oldest; i is the next index to visit
RECURSIVE RecentKeys(_, _, _, _)
RecentKeys(h, i, recent, keep) ==
    IF i = 0 THEN recent
    ELSE IF h[i].action = "context_added"
         THEN LET r2 == IF h[i].key \in Range(recent) THEN recent
                        ELSE Append(recent, h[i].key)
              IN  IF Len(r2) >= keep THEN r2
                  ELSE RecentKeys(h, i - 1, r2, keep)
         ELSE RecentKeys(h, i - 1, recent, keep)

\* history is cut down to the entries of the keys that are kept
compact_context_trimHistory(s, keep) ==
    IF Cardinality(DOMAIN s.context) > keep
    THEN LET recent_keys == Range(RecentKeys(s.history, Len(s.history), <<>>, keep))
             kept == DOMAIN s.context \cap recent_keys
             removed == DOMAIN s.context \ recent_keys
         IN  [s EXCEPT
                !.context = [k \in kept |-> s.context[k]],
                !.history = SelectSeq(@, LAMBDA e : e.key \in kept),
                !.metadata = ("compacted_items" :>
                                 [k \in removed |-> TypeName(s.context[k])]) @@ @]
    ELSE s

\* compacted_items is rewritten also when nothing is dropped
compact_context_always(s, keep) ==
    LET recent_keys == IF Cardinality(DOMAIN s.context) > keep
                       THEN Range(RecentKeys(s.history, Len(s.history), <<>>, keep))
                       ELSE DOMAIN s.context
        kept == DOMAIN s.context \cap recent_keys
        removed == DOMAIN s.context \ recent_keys
    IN  [s EXCEPT
           !.context = [k \in kept |-> s.context[k]],
           !.metadata = ("compacted_items" :>
                            [k \in removed |-> TypeName(s.context[k])]) @@ @]

\* the keys of the last keep history entries are kept, repeated keys counted
\* again
compact_context_lastEntries(s, keep) ==
    IF Cardinality(DOMAIN s.context) > keep
    THEN LET n == IF keep < Len(s.history) THEN keep ELSE Len(s.history)
             recent_keys == {s.history[i].key :
                                i \in (Len(s.history) - n + 1)..Len(s.history)}
             kept == DOMAIN s.context \cap recent_keys
             removed == DOMAIN s.context \ recent_keys
         IN  [s EXCEPT
                !.context = [k \in kept |-> s.context[k]],
                !.metadata = ("compacted_items" :>
                                 [k \in removed |-> TypeName(s.context[k])]) @@ @]
    ELSE s

\* the dropped keys are added to the compacted_items already listed
compact_context_accumulate(s, keep) ==
    IF Cardinality(DOMAIN s.context) > keep
    THEN LET recent_keys == Range(RecentKeys(s.history, Len(s.history), <<>>, keep))
             kept == DOMAIN s.context \cap recent_keys
             removed == DOMAIN s.context \ recent_keys
             listed == IF "compacted_items" \in DOMAIN s.metadata
                       THEN s.metadata["compacted_items"] ELSE EmptyMap
         IN  [s EXCEPT
                !.context = [k \in kept |-> s.context[k]],
                !.metadata = ("compacted_items" :>
                                 ([k \in removed |-> TypeName(s.context[k])]
                                  @@ listed)) @@ @]
    ELSE s

\* history is scanned oldest first: the first keep entries decide
compact_context_oldest(s, keep) ==
    IF Cardinality(DOMAIN s.context) > keep
    THEN LET n == IF keep < Len(s.history) THEN keep ELSE Len(s.history)
             recent_keys == {s.history[i].key : i \in 1..n}
             kept == DOMAIN s.context \cap recent_keys
             removed == DOMAIN s.context \ recent_keys
         IN  [s EXCEPT
                !.context = [k \in kept |-> s.context[k]],
                !.metadata = ("compacted_items" :>
                                 [k \in removed |-> TypeName(s.context[k])]) @@ @]
    ELSE s

compact_context(s, keep) ==
    IF Cardinality(DOMAIN s.context) > keep
    THEN LET recent_keys == Range(RecentKeys(s.history, Len(s.history), <<>>, keep))
             kept == DOMAIN s.context \cap recent_keys
             removed == DOMAIN s.context \ recent_keys
         IN  [s EXCEPT
                !.context = [k \in kept |-> s.context[k]],
                !.metadata = ("compacted_items" :>
                                 [k \in removed |-> TypeName(s.context[k])]) @@ @]
    ELSE s

to_dict(s) == s

-----------------------------------------------------------------------------
(* MetricsCollector *)

NewMetrics == [requests |-> <<>>, agent_calls |-> <<>>, errors |-> <<>>]

record_request_started(m, sid) ==
    [m EXCEPT !.requests = Append(@, [session_id |-> sid, status |-> "started"])]

\* indices of the records the update loops of record_request_* can match
StartedIdx(m, sid) ==
    {i \in 1..Len(m.requests) :
        m.requests[i].session_id = sid /\ m.requests[i].status = "started"}

\* the record the "for request in self.metrics['requests'] ... break" loop hits
FirstStarted(m, sid) ==
    CHOOSE i \in StartedIdx(m, sid) : \A j \in StartedIdx(m, sid) : i <= j

\* a completion that finds no started record appends a completed one
record_request_completed_upsert(m, sid, artifacts_count) ==
    IF StartedIdx(m, sid) = {}
    THEN [m EXCEPT !.requests =
             Append(@, [session_id |-> sid, status |-> "completed",
                        artifacts_count |-> artifacts_count])]
    ELSE [m EXCEPT !.requests[FirstStarted(m, sid)] =
                      ("artifacts_count" :> artifacts_count) @@
                      [@ EXCEPT !.status = "completed"]]

record_request_completed(m, sid, artifacts_count) ==
    IF StartedIdx(m, sid) = {} THEN m
    ELSE [m EXCEPT !.requests[FirstStarted(m, sid)] =
                      ("artifacts_count" :> artifacts_count) @@
                      [@ EXCEPT !.status = "completed"]]

\* the first record of the run is marked failed whatever its status
record_request_failed_anyStatus(m, sid, error) ==
    LET idx == {i \in 1..Len(m.requests) : m.requests[i].session_id = sid}
        first == CHOOSE i \in idx : \A j \in idx : i <= j
        upd == IF idx = {} THEN m
               ELSE [m EXCEPT !.requests[first] =
                                 ("error" :> error) @@
                                 [@ EXCEPT !.status = "failed"]]
    IN  [upd EXCEPT !.errors = Append(@, [session_id |-> sid, error |-> error])]

\* the error entry is written only when a started record was found
record_request_failed_silent(m, sid, error) ==
    IF StartedIdx(m, sid) = {} THEN m
    ELSE [m EXCEPT !.requests[FirstStarted(m, sid)] =
                      ("error" :> error) @@ [@ EXCEPT !.status = "failed"],
                   !.errors = Append(@, [session_id |-> sid, error |-> error])]

record_request_failed(m, sid, error) ==
    LET upd == IF StartedIdx(m, sid) = {} THEN m
               ELSE [m EXCEPT !.requests[FirstStarted(m, sid)] =
                                 ("error" :> error) @@
                                 [@ EXCEPT !.status = "failed"]]
    IN  [upd EXCEPT !.errors = Append(@, [session_id |-> sid, error |-> error])]

record_agent_call(m, agent_name, sid, success) ==
    [m EXCEPT !.agent_calls =
        Append(@, [agent |-> agent_name, session_id |-> sid,
                   success |-> success])]

RECURSIVE GCD(_, _)
GCD(a, b) == IF b = 0 THEN a ELSE GCD(b, a % b)

\* n / d * 100 as a fraction in lowest terms <<numerator, denominator>>;
\* the code's value is the float nearest to it
Percent(n, d) ==
    LET g == GCD(100 * n, d) IN <<(100 * n) \div g, d \div g>>

\* len([r for r in requests if r["status"] == st])
CountStatus(m, st) ==
    Len(SelectSeq(m.requests, LAMBDA r : r.status = st))

\* the loop over agent_calls that fills agent_stats; i is the next index
RECURSIVE AgentStats(_, _, _)
AgentStats(cs, i, stats) ==
    IF i > Len(cs) THEN stats
    ELSE LET agent == cs[i].agent
             old == IF agent \in DOMAIN stats THEN stats[agent]
                    ELSE [total_calls |-> 0, successful_calls |-> 0]
             new == [total_calls |-> old.total_calls + 1,
                     successful_calls |-> old.successful_calls +
                                          (IF cs[i].success THEN 1 ELSE 0)]
         IN  AgentStats(cs, i + 1, (agent :> new) @@ stats)

\* success_rate divides by the finished requests only
get_summary_rateOverFinished(m) ==
    LET completed_requests == CountStatus(m, "completed")
        failed_requests == CountStatus(m, "failed")
        agent_stats == AgentStats(m.agent_calls, 1, EmptyMap)
    IN  [total_requests |-> Len(m.requests),
         completed_requests |-> completed_requests,
         failed_requests |-> failed_requests,
         success_rate |-> IF completed_requests + failed_requests > 0
                          THEN Percent(completed_requests,
                                       completed_requests + failed_requests)
                          ELSE <<0, 1>>,
         total_errors |-> Len(m.errors),
         agent_statistics |->
            [a \in DOMAIN agent_stats |->
                [total_calls |-> agent_stats[a].total_calls,
                 successful_calls |-> agent_stats[a].successful_calls,
                 success_rate |-> Percent(agent_stats[a].successful_calls,
                                          agent_stats[a].total_calls)]]]

get_summary(m) ==
    LET total_requests == Len(m.requests)
        completed_requests == CountStatus(m, "completed")
        failed_requests == CountStatus(m, "failed")
        agent_stats == AgentStats(m.agent_calls, 1, EmptyMap)
    IN  [total_requests |-> total_requests,
         completed_requests |-> completed_requests,
         failed_requests |-> failed_requests,
         success_rate |-> IF total_requests > 0
                          THEN Percent(completed_requests, total_requests)
                          ELSE <<0, 1>>,
         total_errors |-> Len(m.errors),
         agent_statistics |->
            [a \in DOMAIN agent_stats |->
                [total_calls |-> agent_stats[a].total_calls,
                 successful_calls |-> agent_stats[a].successful_calls,
                 success_rate |-> Percent(agent_stats[a].successful_calls,
                                          agent_stats[a].total_calls)]]]

\* the two kinds of path a collector is constructed with: the default, which
\* has a directory part, and a bare file name
DefaultMetricsPath == "./logs/metrics.json"

BareMetricsPath == "metrics.json"

\* os.path.dirname
Dirname(path) == IF path = DefaultMetricsPath THEN "./logs" ELSE ""

\* a file that does not exist
NoFile == [exists |-> FALSE, text |-> <<>>]

\* json.dump of the metrics dict: its items in insertion order
json_dump(m) ==
    <<<<"requests", m.requests>>, <<"agent_calls", m.agent_calls>>,
      <<"errors", m.errors>>>>

\* json.load: the dict with the items of the text
json_load(text) ==
    [k \in {text[i][1] : i \in 1..Len(text)} |->
        LET i == CHOOSE j \in 1..Len(text) : text[j][1] = k IN text[i][2]]

\* os.makedirs(os.path.dirname(path), exist_ok=True) raises for an empty
\* directory name; the exception is logged and the file is not written
save_metrics(m, path, file) ==
    IF Dirname(path) = "" THEN file
    ELSE [exists |-> TRUE, text |-> json_dump(m)]

\* MetricsCollector.__init__: the empty log unless the file exists
load_metrics(file) == IF file.exists THEN json_load(file.text) ELSE NewMetrics

-----------------------------------------------------------------------------
(* Tracer *)

\* the spans of a run id; a run id never traced has none
get_trace(tr, sid) == IF sid \in DOMAIN tr THEN tr[sid] ELSE <<>>

start_trace(tr, sid, operation) ==
    (sid :> Append(get_trace(tr, sid),
                   [operation |-> operation, status |-> "running"])) @@ tr

\* the spans of sid that end_trace can close
OpenSpans(tr, sid, operation) ==
    {i \in 1..Len(get_trace(tr, sid)) :
        /\ tr[sid][i].operation = operation
        /\ tr[sid][i].status = "running"}

\* the spans are scanned from the oldest
end_trace_forward(tr, sid, operation, success) ==
    IF OpenSpans(tr, sid, operation) = {} THEN tr
    ELSE LET i == CHOOSE i \in OpenSpans(tr, sid, operation) :
                     \A j \in OpenSpans(tr, sid, operation) : i <= j
         IN  [tr EXCEPT ![sid][i].status =
                            IF success THEN "completed" ELSE "failed"]

\* for trace in reversed(self.traces[session_id]): the first match, which
\* is the one with the largest index, is closed
end_trace(tr, sid, operation, success) ==
    IF OpenSpans(tr, sid, operation) = {} THEN tr
    ELSE LET i == CHOOSE i \in OpenSpans(tr, sid, operation) :
                     \A j \in OpenSpans(tr, sid, operation) : j <= i
         IN  [tr EXCEPT ![sid][i].status =
                            IF success THEN "completed" ELSE "failed"]

-----------------------------------------------------------------------------
(* SessionManager *)

\* the snapshot is not entered in the bank
store_session_skip(bank, s) == bank

store_session(bank, s) == (s.session_id :> to_dict(s)) @@ bank

\* the key order of the dict after self.memory_bank[session_id] = ...: a new
\* run id goes last, a run id already stored keeps its place
KeysAfterStore(order, s) ==
    IF s.session_id \in Range(order) THEN order
    ELSE Append(order, s.session_id)

\* a parsed specification whose description has the given words
Described(words) == [type |-> "dict", ref |-> NoPath, description |-> words]

\* set(parsed_spec.get("description", "").lower().split())
Description(session_data) ==
    IF /\ "parsed_spec" \in DOMAIN session_data.context
       /\ "description" \in DOMAIN session_data.context["parsed_spec"]
    THEN session_data.context["parsed_spec"].description
    ELSE {}

\* the entries of m with the given similarity, then those with less:
\* list.sort(key=similarity, reverse=True), which keeps entries of equal
\* similarity in the order they had
RECURSIVE SortedFrom(_, _)
SortedFrom(m, similarity) ==
    IF similarity = 0 THEN <<>>
    ELSE SelectSeq(m, LAMBDA x : x.similarity = similarity)
         \o SortedFrom(m, similarity - 1)

\* the stored sessions, in the key order of the dict, whose description
\* shares a word with the query, with the size of the overlap; sorted by
\* overlap, largest first, and cut to the first limit entries (limit >= 0)
retrieve_similar_sessions(bank, order, keywords, limit) ==
    LET all == [i \in 1..Len(order) |->
                   [session_id |-> order[i],
                    similarity |->
                        Cardinality(keywords \cap Description(bank[order[i]])),
                    data |-> bank[order[i]]]]
        similar_sessions == SelectSeq(all, LAMBDA x : x.similarity > 0)
        sorted == SortedFrom(similar_sessions, Cardinality(keywords))
    IN  SubSeq(sorted, 1, IF limit < Len(sorted) THEN limit ELSE Len(sorted))

RECURSIVE TotalAgentCalls(_, _)
TotalAgentCalls(bank, S) ==
    IF S = {} THEN 0
    ELSE LET sid == CHOOSE sid \in S : TRUE
         IN  get_metric(bank[sid], "agent_calls", 0)
             + TotalAgentCalls(bank, S \ {sid})

\* execution times are not represented
get_statistics(bank) ==
    LET total_sessions == Cardinality(DOMAIN bank)
        successes == Cardinality({sid \in DOMAIN bank :
                        /\ "success" \in DOMAIN bank[sid].metadata
                        /\ bank[sid].metadata["success"] = TRUE})
    IN  IF total_sessions = 0
        THEN [total_sessions |-> 0, success_rate |-> <<0, 1>>]
        ELSE [total_sessions |-> total_sessions,
              success_rate |-> Percent(successes, total_sessions),
              total_agent_calls |-> TotalAgentCalls(bank, DOMAIN bank)]

clear_memory_bank(bank) == EmptyMap

-----------------------------------------------------------------------------
(* Collaborator call log *)

\* the instruction text of _create_refinement_prompt: the iteration number
\* and the critical findings of the review it is given (a review is
\* represented by its number of critical findings)
create_refinement_prompt(review, it) == [iteration |-> it, critical |-> review]

\* calls other than refine_playbook take no instruction
NoPrompt == create_refinement_prompt(0, 0)

\* an invocation of a collaborator method; valid and critical carry what the
\* parser and the reviewer report when they return, prompt is the instruction
\* passed to refine_playbook
Call(agent, arg) ==
    [agent |-> agent, arg |-> arg, status |-> "running",
     valid |-> TRUE, critical |-> 0, prompt |-> NoPrompt]

Invoke(c, agent, arg) == Append(c, Call(agent, arg))

InvokeRefine(c, playbook, prompt) ==
    Append(c, [Call("refine_playbook", playbook) EXCEPT !.prompt = prompt])

\* the open invocation of agent (at most one is open per agent)
OpenCall(c, agent) ==
    CHOOSE i \in 1..Len(c) : c[i].agent = agent /\ c[i].status = "running"

Returned(c, agent) == [c EXCEPT ![OpenCall(c, agent)].status = "returned"]

Raised(c, agent) == [c EXCEPT ![OpenCall(c, agent)].status = "raised"]

ReturnedInvalid(c, agent) ==
    [c EXCEPT ![OpenCall(c, agent)].status = "returned",
              ![OpenCall(c, agent)].valid = FALSE]

ReturnedReview(c, n) ==
    [c EXCEPT ![OpenCall(c, "review_code")].status = "returned",
              ![OpenCall(c, "review_code")].critical = n]

-----------------------------------------------------------------------------
(* OrchestratorAgent *)

NoSession == NewSession("")

\* no operation called yet
NoOp == [name |-> "none"]

\* nothing has been passed to the session yet
NoTally == [adds |-> 0, amounts |-> EmptyMap]

\* the test generator joins the fan-out
GatherTasks_withTests ==
    {"generate_documentation", "generate_playbook", "generate_tests"}

GatherTasks == {"generate_documentation", "generate_playbook"}

Err(kind, cause) == <<kind, cause>>

AutomationResult(success, arts, errs) ==
    [success |-> success, artifacts |-> arts, errors |-> errs]

\* an error result that claims success
create_error_result_success(errs) == AutomationResult(TRUE, EmptyMap, errs)

\* only the error that ended the run is reported
create_error_result_lastOnly(errs) ==
    AutomationResult(FALSE, EmptyMap, <<errs[Len(errs)]>>)

create_error_result(errs) == AutomationResult(FALSE, EmptyMap, errs)

\* success gated on the validation outcome
CompletedResult_gated(arts, errs, valid) == AutomationResult(valid, arts, errs)

\* the result of a run whose phases all completed; valid is what
\* _validate_artifacts returned
CompletedResult(arts, errs, valid) == AutomationResult(TRUE, arts, errs)

\* what parse_specification may return
ParserResults == [valid : BOOLEAN]

\* the validity check dropped
IsValid_unchecked(r) == TRUE

\* spec_result.get("valid", False)
IsValid(r) == r.valid

\* a documentation exception taken for a result
DocFailed_never(tk) == FALSE

\* the isinstance test on the documentation result
DocFailed(tk) == tk["generate_documentation"] = "raised"

\* the primary failure test never true
PlaybookFailed_never(tk) == FALSE

\* any failed branch treated as fatal
PlaybookFailed_any(tk) == \E t \in DOMAIN tk : tk[t] = "raised"

\* the isinstance test on the playbook result
PlaybookFailed(tk) == tk["generate_playbook"] = "raised"

required_artifacts == {"ansible_playbook", "code_review", "tests", "cicd_pipeline"}

\* existing: the locations for which os.path.exists is true
validate_artifacts(arts, existing) ==
    \A t \in required_artifacts : t \in DOMAIN arts /\ arts[t] \in existing

\* loop entered only for more than one critical finding
EntersLoop_gt1(n) == n > 1

\* review_result.get("critical_issues", 0) > 0
EntersLoop(n) == n > 0

\* a single remaining critical finding accepted
Converged_le1(n) == n <= 1

\* new_review.get("critical_issues", 0) == 0
Converged(n) == n = 0

\* off-by-one loop bound
LoopContinues_le(it) == it <= max_iterations

\* while iteration < max_iterations
LoopContinues(it) == it < max_iterations

Init ==
    /\ pc = "init"
    /\ artifacts = EmptyMap
    /\ errors = <<>>
    /\ session = NoSession
    /\ metrics = NewMetrics
    /\ memory_bank = EmptyMap
    /\ bank_order = <<>>
    /\ tasks = EmptyMap
    /\ calls = <<>>
    /\ iteration = 0
    /\ current_playbook = NoPath
    /\ refined_result = NoPath
    /\ review_result = 0
    /\ validation = "not_run"
    /\ results = <<>>
    /\ metrics_path = DefaultMetricsPath
    /\ metrics_file = NoFile
    /\ op = NoOp
    /\ traces = EmptyMap
    /\ tally = NoTally

\* the handler lets the exception go: no result is returned
Handler_reraise(c, m, cause) ==
    /\ errors' = Append(errors, Err("Orchestration error", cause))
    /\ metrics' = record_request_failed(m, SessionId, cause)
    /\ metrics_file' = save_metrics(metrics', metrics_path, metrics_file)
    /\ results' = results
    /\ calls' = c
    /\ pc' = "done"

\* except Exception as e: the top-level handler, reached with call log c and
\* collector log m
Handler(c, m, cause) ==
    LET errs == Append(errors, Err("Orchestration error", cause))
    IN  /\ errors' = errs
        /\ metrics' = record_request_failed(m, SessionId, cause)
        /\ metrics_file' = save_metrics(metrics', metrics_path, metrics_file)
        /\ results' = Append(results, create_error_result(errs))
        /\ calls' = c
        /\ pc' = "done"

Fail(c, cause) == Handler(c, metrics, cause)

\* create the session (SessionManager.sessions keeps a reference to the same
\* object), record the start, call the parser
Start ==
    /\ pc = "init"
    /\ \/ /\ session' = NewSession(SessionId)
          /\ metrics' = record_request_started(metrics, SessionId)
          /\ metrics_file' = save_metrics(metrics', metrics_path, metrics_file)
          /\ calls' = Invoke(calls, "parse_specification", Path("spec_file", 0))
          /\ pc' = "await_parse"
          /\ UNCHANGED <<errors, results>>
       \/ \* create_session raises before the start is recorded
          /\ Fail(calls, "create_session")
          /\ UNCHANGED session
    /\ UNCHANGED <<artifacts, memory_bank, bank_order, tasks, iteration,
                   current_playbook, refined_result, review_result,
                   validation, metrics_path, op, traces, tally>>

\* the parser returns or raises; on a valid spec the two generator
\* coroutines are created and handed to asyncio.gather
ParseReturn ==
    /\ pc = "await_parse"
    /\ \/ \E r \in ParserResults :
            /\ calls' = IF r.valid THEN Returned(calls, "parse_specification")
                        ELSE ReturnedInvalid(calls, "parse_specification")
            /\ IF ~IsValid(r)
               THEN /\ errors' = Append(errors,
                                        Err("Specification validation failed", ""))
                    /\ results' = Append(results, create_error_result(errors'))
                    /\ pc' = "done"
                    /\ UNCHANGED <<session, tasks>>
               ELSE /\ session' = add_context(session, "parsed_spec", SpecValue)
                    /\ tasks' = [t \in GatherTasks |-> "pending"]
                    /\ pc' = "await_gather"
                    /\ UNCHANGED <<errors, results>>
            /\ UNCHANGED <<metrics, metrics_file>>
       \/ /\ Fail(Raised(calls, "parse_specification"), "parse_specification")
          /\ UNCHANGED <<session, tasks>>
    /\ UNCHANGED <<metrics_path, op, traces, tally>>
    /\ UNCHANGED <<artifacts, memory_bank, bank_order, iteration, current_playbook,
                   refined_result, review_result, validation>>

\* the event loop runs a task created by gather for the first time; tasks
\* are started in the order they were passed
TaskStart(t) ==
    /\ pc = "await_gather"
    /\ tasks[t] = "pending"
    /\ t = "generate_playbook" => tasks["generate_documentation"] # "pending"
    /\ tasks' = [tasks EXCEPT ![t] = "running"]
    /\ calls' = Invoke(calls, t, Path("parsed_spec", 0))
    /\ UNCHANGED <<metrics_path, op, traces, tally>>
    /\ UNCHANGED <<pc, artifacts, errors, session, metrics, metrics_file, memory_bank, bank_order,
                   iteration, current_playbook, refined_result, review_result,
                   validation, results>>

\* a gathered task returns its result or raises; return_exceptions=True
\* stores the exception as that task's result
TaskFinish(t) ==
    /\ pc = "await_gather"
    /\ tasks[t] = "running"
    /\ \/ /\ tasks' = [tasks EXCEPT ![t] = "returned"]
          /\ calls' = Returned(calls, t)
       \/ /\ tasks' = [tasks EXCEPT ![t] = "raised"]
          /\ calls' = Raised(calls, t)
    /\ UNCHANGED <<metrics_path, op, traces, tally>>
    /\ UNCHANGED <<pc, artifacts, errors, session, metrics, metrics_file, memory_bank, bank_order,
                   iteration, current_playbook, refined_result, review_result,
                   validation, results>>

\* resolves as soon as one task has a result
GatherDone_first == \E t \in GatherTasks : tasks[t] \in {"returned", "raised"}

\* asyncio.gather resolves once every task has a result
GatherDone == \A t \in GatherTasks : tasks[t] \in {"returned", "raised"}

\* the code after the gather up to the reviewer call
GatherReturn ==
    /\ pc = "await_gather"
    /\ GatherDone
    /\ LET docFailed == DocFailed(tasks)
           errs1 == IF docFailed
                    THEN Append(errors, Err("Documentation generation failed",
                                            "generate_documentation"))
                    ELSE errors
           arts1 == IF docFailed THEN artifacts
                    ELSE ("documentation" :> DocPath) @@ artifacts
           s1 == IF docFailed THEN session
                 ELSE add_context(session, "documentation", DictValue(DocPath))
       IN  IF PlaybookFailed(tasks)
           THEN /\ errors' = Append(errs1, Err("Ansible generation failed",
                                               "generate_playbook"))
                /\ results' = Append(results, create_error_result(errors'))
                /\ artifacts' = arts1
                /\ session' = s1
                /\ pc' = "done"
                /\ UNCHANGED calls
           ELSE /\ errors' = errs1
                /\ artifacts' = ("ansible_playbook" :> PlaybookPath) @@
                                ("inventory" :> InventoryPath) @@ arts1
                /\ session' = add_context(s1, "ansible_playbook",
                                          DictValue(PlaybookPath))
                /\ calls' = Invoke(calls, "review_code", PlaybookPath)
                /\ pc' = "await_review"
                /\ UNCHANGED results
    /\ UNCHANGED <<metrics_path, op, traces, tally>>
    /\ UNCHANGED <<metrics, metrics_file, memory_bank, bank_order, tasks, iteration, current_playbook,
                   refined_result, review_result, validation>>

\* the returned playbook is not recorded as the ansible_playbook artifact
LoopExit_keepOriginal(c, s, arts, p, it) ==
    /\ artifacts' = arts
    /\ session' = add_context(s, "refined_playbook", DictValue(p))
    /\ calls' = Invoke(c, "generate_tests", artifacts'["ansible_playbook"])
    /\ pc' = "await_tests"
    /\ iteration' = it

\* the refinement loop returned playbook p: lines after the loop call up to
\* the test generator call
LoopExit(c, s, arts, p, it) ==
    /\ artifacts' = ("ansible_playbook" :> p) @@ arts
    /\ session' = add_context(s, "refined_playbook", DictValue(p))
    /\ calls' = Invoke(c, "generate_tests", artifacts'["ansible_playbook"])
    /\ pc' = "await_tests"
    /\ iteration' = it

\* the instruction is built from the review the loop was entered with
LoopHead_staleReview(c, s, arts, cur, it) ==
    IF LoopContinues(it)
    THEN /\ iteration' = it + 1
         /\ calls' = InvokeRefine(c, cur,
                         create_refinement_prompt(review_result, it + 1))
         /\ session' = s
         /\ artifacts' = arts
         /\ pc' = "await_refine"
    ELSE LoopExit(c, s, arts, cur, it)

\* evaluation of the while condition with iteration = it and
\* current_playbook = cur; review_result' is the review the caller has just
\* assigned
LoopHead(c, s, arts, cur, it) ==
    IF LoopContinues(it)
    THEN /\ iteration' = it + 1
         /\ calls' = InvokeRefine(c, cur,
                         create_refinement_prompt(review_result', it + 1))
         /\ session' = s
         /\ artifacts' = arts
         /\ pc' = "await_refine"
    ELSE LoopExit(c, s, arts, cur, it)

\* the initial review returns or raises; critical findings start the
\* refinement loop, otherwise the test generator is called
ReviewReturn ==
    /\ pc = "await_review"
    /\ \/ /\ Fail(Raised(calls, "review_code"), "review_code")
          /\ UNCHANGED <<artifacts, session, iteration, current_playbook,
                         review_result>>
       \/ \E n \in 0..MaxCritical :
            LET c1 == ReturnedReview(calls, n)
                report == ReportPath(PlaybookPath)
                s1 == add_context(session, "code_review", DictValue(report))
                arts1 == ("code_review" :> report) @@ artifacts
            IN  /\ IF EntersLoop(n)
                   THEN /\ review_result' = n
                        /\ current_playbook' = PlaybookPath
                        /\ LoopHead(c1, s1, arts1, PlaybookPath, 0)
                   ELSE /\ artifacts' = arts1
                        /\ calls' = Invoke(c1, "generate_tests",
                                           arts1["ansible_playbook"])
                        /\ session' = s1
                        /\ pc' = "await_tests"
                        /\ UNCHANGED <<iteration, current_playbook, review_result>>
                /\ UNCHANGED <<errors, metrics, metrics_file, results>>
    /\ UNCHANGED <<metrics_path, op, traces, tally>>
    /\ UNCHANGED <<memory_bank, bank_order, tasks, refined_result, validation>>

\* an exception of refine_playbook ends the loop, which returns the current
\* playbook
RefineReturn_absorbs ==
    /\ pc = "await_refine"
    /\ \/ /\ LoopExit(Raised(calls, "refine_playbook"), session, artifacts,
                      current_playbook, iteration)
          /\ UNCHANGED refined_result
       \/ /\ refined_result' = RefinedPath(current_playbook)
          /\ calls' = Invoke(Returned(calls, "refine_playbook"),
                             "review_code", refined_result')
          /\ pc' = "await_rereview"
          /\ UNCHANGED <<artifacts, session, iteration>>
    /\ UNCHANGED <<errors, metrics, metrics_file, results>>
    /\ UNCHANGED <<metrics_path, op, traces, tally>>
    /\ UNCHANGED <<memory_bank, bank_order, tasks, current_playbook, review_result,
                   validation>>

\* refine_playbook returns the refined playbook or raises; the reviewer is
\* called on the revision
RefineReturn ==
    /\ pc = "await_refine"
    /\ \/ /\ Fail(Raised(calls, "refine_playbook"), "refine_playbook")
          /\ UNCHANGED refined_result
       \/ /\ refined_result' = RefinedPath(current_playbook)
          /\ calls' = Invoke(Returned(calls, "refine_playbook"),
                             "review_code", refined_result')
          /\ pc' = "await_rereview"
          /\ UNCHANGED <<errors, metrics, metrics_file, results>>
    /\ UNCHANGED <<metrics_path, op, traces, tally>>
    /\ UNCHANGED <<artifacts, session, memory_bank, bank_order, tasks, iteration,
                   current_playbook, review_result, validation>>

\* the re-review returns or raises; the loop returns the revision, or makes
\* it the baseline, compacts the context and evaluates the loop condition
ReReviewReturn ==
    /\ pc = "await_rereview"
    /\ \/ /\ Fail(Raised(calls, "review_code"), "review_code")
          /\ UNCHANGED <<artifacts, session, iteration, current_playbook,
                         review_result>>
       \/ \E n \in 0..MaxCritical :
            LET c1 == ReturnedReview(calls, n)
            IN  /\ IF Converged(n)
                   THEN /\ LoopExit(c1, session, artifacts, refined_result,
                                    iteration)
                        /\ UNCHANGED <<current_playbook, review_result>>
                   ELSE /\ current_playbook' = refined_result
                        /\ review_result' = n
                        /\ LoopHead(c1, compact_context(session, loop_keep_recent),
                                    artifacts, refined_result, iteration)
                /\ UNCHANGED <<errors, metrics, metrics_file, results>>
    /\ UNCHANGED <<metrics_path, op, traces, tally>>
    /\ UNCHANGED <<memory_bank, bank_order, tasks, refined_result, validation>>

\* the test generator returns or raises; the pipeline generator is called
TestsReturn ==
    /\ pc = "await_tests"
    /\ \/ /\ Fail(Raised(calls, "generate_tests"), "generate_tests")
          /\ UNCHANGED <<artifacts, session>>
       \/ /\ artifacts' = ("tests" :> TestDir) @@ artifacts
          /\ session' = add_context(session, "tests", DictValue(TestDir))
          /\ calls' = Invoke(Returned(calls, "generate_tests"),
                             "generate_pipeline", Path("parsed_spec", 0))
          /\ pc' = "await_cicd"
          /\ UNCHANGED <<errors, metrics, metrics_file, results>>
    /\ UNCHANGED <<metrics_path, op, traces, tally>>
    /\ UNCHANGED <<memory_bank, bank_order, tasks, iteration, current_playbook,
                   refined_result, review_result, validation>>

\* the pipeline generator returns or raises; validation, request completion,
\* storing the session and building the result follow without suspension
CicdReturn ==
    /\ pc = "await_cicd"
    /\ \/ /\ Fail(Raised(calls, "generate_pipeline"), "generate_pipeline")
          /\ UNCHANGED <<artifacts, session, memory_bank, bank_order, validation>>
       \/ \* os.path.exists raises inside _validate_artifacts
          /\ artifacts' = ("cicd_pipeline" :> PipelinePath) @@ artifacts
          /\ session' = add_context(session, "cicd", DictValue(PipelinePath))
          /\ validation' = "raised"
          /\ Fail(Returned(calls, "generate_pipeline"), "_validate_artifacts")
          /\ UNCHANGED <<memory_bank, bank_order>>
       \/ \E existing \in SUBSET ({PipelinePath} \cup
                                   {artifacts[t] : t \in DOMAIN artifacts}) :
            /\ artifacts' = ("cicd_pipeline" :> PipelinePath) @@ artifacts
            /\ session' = add_context(session, "cicd", DictValue(PipelinePath))
            /\ validation' = IF validate_artifacts(artifacts', existing)
                             THEN "passed" ELSE "failed"
            /\ LET completed == record_request_completed(metrics, SessionId,
                                     Cardinality(DOMAIN artifacts'))
               IN  \/ /\ metrics' = completed
                      /\ metrics_file' = save_metrics(metrics', metrics_path,
                                                      metrics_file)
                      /\ calls' = Returned(calls, "generate_pipeline")
                      /\ memory_bank' = store_session(memory_bank, session')
                      /\ bank_order' = KeysAfterStore(bank_order, session')
                      /\ results' = Append(results,
                                        CompletedResult(artifacts', errors,
                                          validate_artifacts(artifacts', existing)))
                      /\ pc' = "done"
                      /\ UNCHANGED errors
                   \/ \* session.to_dict() raises inside store_session, after
                      \* the request was recorded as completed
                      /\ Handler(Returned(calls, "generate_pipeline"),
                                 completed, "store_session")
                      /\ UNCHANGED <<memory_bank, bank_order>>
    /\ UNCHANGED <<tasks, iteration, current_playbook, refined_result,
                   review_result, metrics_path, op, traces,
                   tally>>

Next ==
    \/ Start
    \/ ParseReturn
    \/ \E t \in GatherTasks : TaskStart(t)
    \/ \E t \in GatherTasks : TaskFinish(t)
    \/ GatherReturn
    \/ ReviewReturn
    \/ RefineReturn
    \/ ReReviewReturn
    \/ TestsReturn
    \/ CicdReturn

Spec == Init /\ [][Next]_vars

\* every awaited collaborator call eventually returns or raises and the
\* event loop keeps running ready coroutines
FairSpec == Spec /\ WF_vars(Next)

TypeOK ==
    /\ pc \in {"init", "await_parse", "await_gather", "await_review",
               "await_refine", "await_rereview", "await_tests", "await_cicd",
               "done"}
    /\ iteration \in 0..max_iterations
    /\ Len(results) <= 1
    /\ validation \in {"not_run", "passed", "failed", "raised"}

-----------------------------------------------------------------------------
(* A MetricsCollector used on its own, as the tests and other callers use it: *)
(* any sequence of its operations, and a crash followed by the construction  *)
(* of a new collector on the same file.  op is the last operation with its   *)
(* arguments and the log it found.                                           *)

RunIds == {SessionId, "run2"}

AgentNames == {"test_agent", "other_agent"}

LogSize(m) == Len(m.requests) + Len(m.agent_calls) + Len(m.errors)

\* the operation called last: its name and arguments, the log and the file
\* before the call, and the name of the operation before it
Op(name, sid, res) ==
    [name |-> name, sid |-> sid, result |-> res,
     pre |-> metrics, pre_file |-> metrics_file, prev |-> op.name]

MInit ==
    /\ metrics_path \in {DefaultMetricsPath, BareMetricsPath}
    /\ metrics_file = NoFile
    /\ metrics = load_metrics(metrics_file)
    /\ op = NoOp
    /\ traces = EmptyMap
    /\ tally = NoTally
    /\ pc = "init"
    /\ artifacts = EmptyMap
    /\ errors = <<>>
    /\ session = NoSession
    /\ memory_bank = EmptyMap
    /\ bank_order = <<>>
    /\ tasks = EmptyMap
    /\ calls = <<>>
    /\ iteration = 0
    /\ current_playbook = NoPath
    /\ refined_result = NoPath
    /\ review_result = 0
    /\ validation = "not_run"
    /\ results = <<>>

MStarted(sid) ==
    /\ LogSize(metrics) < MaxLog
    /\ metrics' = record_request_started(metrics, sid)
    /\ metrics_file' = save_metrics(metrics', metrics_path, metrics_file)
    /\ op' = Op("record_request_started", sid, 0)
    /\ UNCHANGED <<metrics_path, session, runVars, traces, tally>>

MCompleted(sid) ==
    /\ metrics' = record_request_completed(metrics, sid, 4)
    /\ metrics_file' = save_metrics(metrics', metrics_path, metrics_file)
    /\ op' = Op("record_request_completed", sid, 0)
    /\ UNCHANGED <<metrics_path, session, runVars, traces, tally>>

MFailed(sid) ==
    /\ LogSize(metrics) < MaxLog
    /\ metrics' = record_request_failed(metrics, sid, "boom")
    /\ metrics_file' = save_metrics(metrics', metrics_path, metrics_file)
    /\ op' = Op("record_request_failed", sid, 0)
    /\ UNCHANGED <<metrics_path, session, runVars, traces, tally>>

MAgentCall(agent, success) ==
    /\ LogSize(metrics) < MaxLog
    /\ metrics' = record_agent_call(metrics, agent, SessionId, success)
    /\ metrics_file' = save_metrics(metrics', metrics_path, metrics_file)
    /\ op' = Op("record_agent_call", SessionId, 0)
    /\ UNCHANGED <<metrics_path, session, runVars, traces, tally>>

MGetSummary ==
    /\ op' = Op("get_summary", "", get_summary(metrics))
    /\ UNCHANGED <<metrics, metrics_file, metrics_path, session, runVars, traces,
                   tally>>

\* the process dies between two operations and a new collector is
\* constructed with the same path
MRestart ==
    /\ metrics' = load_metrics(metrics_file)
    /\ op' = Op("restart", "", 0)
    /\ UNCHANGED <<metrics_file, metrics_path, session, runVars, traces, tally>>

MNext ==
    \/ \E sid \in RunIds : MStarted(sid)
    \/ \E sid \in RunIds : MCompleted(sid)
    \/ \E sid \in RunIds : MFailed(sid)
    \/ \E a \in AgentNames, ok \in BOOLEAN : MAgentCall(a, ok)
    \/ MGetSummary
    \/ MRestart

MetricsSpec == MInit /\ [][MNext]_vars

-----------------------------------------------------------------------------
(* A Session used on its own: any sequence of add_context and              *)
(* compact_context calls on a session created by create_session.  op is the *)
(* last call with its arguments and the session it found.                   *)

ContextKeys == {"key_0", "key_1", "key_2", "key_3"}

ContextValues == {StrValue("v1"), DictValue(NoPath)}

SInit ==
    /\ session = NewSession(SessionId)
    /\ op = NoOp
    /\ traces = EmptyMap
    /\ tally = NoTally
    /\ metrics = NewMetrics
    /\ metrics_path = DefaultMetricsPath
    /\ metrics_file = NoFile
    /\ pc = "init"
    /\ artifacts = EmptyMap
    /\ errors = <<>>
    /\ memory_bank = EmptyMap
    /\ bank_order = <<>>
    /\ tasks = EmptyMap
    /\ calls = <<>>
    /\ iteration = 0
    /\ current_playbook = NoPath
    /\ refined_result = NoPath
    /\ review_result = 0
    /\ validation = "not_run"
    /\ results = <<>>

MetricNames == {"agent_calls", "tokens_used"}

\* amounts passed to increment_metric; 1 is the default
Amounts == {1, 5}

\* the amounts passed for a counter name so far, oldest first
AmountsFor(name) ==
    IF name \in DOMAIN tally.amounts THEN tally.amounts[name] ELSE <<>>

\* number of increment_metric calls made so far
Increments ==
    LET RECURSIVE Total(_)
        Total(S) == IF S = {} THEN 0
                    ELSE LET n == CHOOSE n \in S : TRUE
                         IN  Len(tally.amounts[n]) + Total(S \ {n})
    IN  Total(DOMAIN tally.amounts)

SAdd(key, value) ==
    /\ Len(session.history) < MaxHistory
    /\ session' = add_context(session, key, value)
    /\ op' = [name |-> "add_context", key |-> key, value |-> value,
              pre |-> session]
    /\ tally' = [tally EXCEPT !.adds = @ + 1]
    /\ UNCHANGED <<metrics, metrics_path, metrics_file, runVars, traces>>

SGetContext(key) ==
    /\ op' = [name |-> "get_context", key |-> key, pre |-> session,
              result |-> get_context(session, key, NoPath)]
    /\ UNCHANGED <<session, metrics, metrics_path, metrics_file, runVars,
                   traces, tally>>

SCompact(keep) ==
    /\ session' = compact_context(session, keep)
    /\ op' = [name |-> "compact_context", keep_recent |-> keep,
              pre |-> session]
    /\ UNCHANGED <<metrics, metrics_path, metrics_file, runVars, traces,
                   tally>>

SIncrement(name, amount) ==
    /\ Increments < MaxIncrements
    /\ session' = increment_metric(session, name, amount)
    /\ op' = [name |-> "increment_metric", metric_name |-> name,
              amount |-> amount, pre |-> session]
    /\ tally' = [tally EXCEPT
                    !.amounts = (name :> Append(AmountsFor(name), amount)) @@ @]
    /\ UNCHANGED <<metrics, metrics_path, metrics_file, runVars, traces>>

SGetMetric(name) ==
    /\ op' = [name |-> "get_metric", metric_name |-> name, pre |-> session,
              result |-> get_metric(session, name, 0)]
    /\ UNCHANGED <<session, metrics, metrics_path, metrics_file, runVars,
                   traces, tally>>

SNext ==
    \/ \E key \in ContextKeys, value \in ContextValues : SAdd(key, value)
    \/ \E key \in ContextKeys : SGetContext(key)
    \/ \E keep \in 0..MaxKeep : SCompact(keep)

SessionSpec == SInit /\ [][SNext]_vars

\* the counters of a session used on their own
CNext ==
    \/ \E name \in MetricNames, amount \in Amounts : SIncrement(name, amount)
    \/ \E name \in MetricNames : SGetMetric(name)

CounterSpec == SInit /\ [][CNext]_vars

-----------------------------------------------------------------------------
(* A Tracer used on its own: any sequence of start_trace, end_trace and    *)
(* get_trace calls.  op is the last call with its arguments and the traces *)
(* it found.                                                               *)

Operations == {"parse", "review"}

\* number of spans of all run ids
RECURSIVE SpanCount(_, _)
SpanCount(tr, S) ==
    IF S = {} THEN 0
    ELSE LET sid == CHOOSE sid \in S : TRUE
         IN  Len(tr[sid]) + SpanCount(tr, S \ {sid})

TInit ==
    /\ traces = EmptyMap
    /\ op = NoOp
    /\ tally = NoTally
    /\ session = NoSession
    /\ metrics = NewMetrics
    /\ metrics_path = DefaultMetricsPath
    /\ metrics_file = NoFile
    /\ pc = "init"
    /\ artifacts = EmptyMap
    /\ errors = <<>>
    /\ memory_bank = EmptyMap
    /\ bank_order = <<>>
    /\ tasks = EmptyMap
    /\ calls = <<>>
    /\ iteration = 0
    /\ current_playbook = NoPath
    /\ refined_result = NoPath
    /\ review_result = 0
    /\ validation = "not_run"
    /\ results = <<>>

TStart(sid, operation) ==
    /\ SpanCount(traces, DOMAIN traces) < MaxSpans
    /\ traces' = start_trace(traces, sid, operation)
    /\ op' = [name |-> "start_trace", sid |-> sid, operation |-> operation,
              pre |-> traces]
    /\ UNCHANGED <<session, metrics, metrics_path, metrics_file, runVars,
                   tally>>

TEnd(sid, operation, success) ==
    /\ traces' = end_trace(traces, sid, operation, success)
    /\ op' = [name |-> "end_trace", sid |-> sid, operation |-> operation,
              success |-> success, pre |-> traces]
    /\ UNCHANGED <<session, metrics, metrics_path, metrics_file, runVars,
                   tally>>

TGet(sid) ==
    /\ op' = [name |-> "get_trace", sid |-> sid, pre |-> traces,
              result |-> get_trace(traces, sid)]
    /\ UNCHANGED <<traces, session, metrics, metrics_path, metrics_file,
                   runVars, tally>>

TNext ==
    \/ \E sid \in RunIds, o \in Operations : TStart(sid, o)
    \/ \E sid \in RunIds, o \in Operations, ok \in BOOLEAN : TEnd(sid, o, ok)
    \/ \E sid \in RunIds : TGet(sid)

TracerSpec == TInit /\ [][TNext]_vars

-----------------------------------------------------------------------------
(* A SessionManager used on its own: sessions are created, written to and  *)
(* stored, the bank is read and cleared.  session is the live Session      *)
(* created last; op is the last call with the bank it found.               *)

\* descriptions of stored specifications and queries, as sets of words
Descriptions == {{"vlan"}, {"bgp", "vlan"}}

\* values passed as limit; 5 is the default
Limits == {1, 5}

BankOp(name, res) == [name |-> name, pre |-> memory_bank, result |-> res]

BInit ==
    /\ memory_bank = EmptyMap
    /\ bank_order = <<>>
    /\ session = NoSession
    /\ op = NoOp
    /\ traces = EmptyMap
    /\ tally = NoTally
    /\ metrics = NewMetrics
    /\ metrics_path = DefaultMetricsPath
    /\ metrics_file = NoFile
    /\ pc = "init"
    /\ artifacts = EmptyMap
    /\ errors = <<>>
    /\ tasks = EmptyMap
    /\ calls = <<>>
    /\ iteration = 0
    /\ current_playbook = NoPath
    /\ refined_result = NoPath
    /\ review_result = 0
    /\ validation = "not_run"
    /\ results = <<>>

bankFrame == <<pc, artifacts, errors, tasks, calls, iteration,
               current_playbook, refined_result, review_result, validation,
               results, metrics, metrics_path, metrics_file, traces, tally>>

BCreate(sid) ==
    /\ session' = NewSession(sid)
    /\ op' = BankOp("create_session", sid)
    /\ UNCHANGED <<memory_bank, bank_order, bankFrame>>

\* the caller writes to the live session
BTouch(words) ==
    /\ session # NoSession
    /\ Len(session.history) < MaxTouches
    /\ session' = add_context(session, "parsed_spec", Described(words))
    /\ op' = BankOp("add_context", words)
    /\ UNCHANGED <<memory_bank, bank_order, bankFrame>>

BStore ==
    /\ session # NoSession
    /\ memory_bank' = store_session(memory_bank, session)
    /\ bank_order' = KeysAfterStore(bank_order, session)
    /\ op' = BankOp("store_session", session.session_id)
    /\ UNCHANGED <<session, bankFrame>>

BRetrieve(words, limit) ==
    /\ op' = BankOp("retrieve_similar_sessions",
                    retrieve_similar_sessions(memory_bank, bank_order,
                                              words, limit))
    /\ UNCHANGED <<session, memory_bank, bank_order, bankFrame>>

BStatistics ==
    /\ op' = BankOp("get_statistics", get_statistics(memory_bank))
    /\ UNCHANGED <<session, memory_bank, bank_order, bankFrame>>

BClear ==
    /\ memory_bank' = clear_memory_bank(memory_bank)
    /\ bank_order' = <<>>
    /\ op' = BankOp("clear_memory_bank", 0)
    /\ UNCHANGED <<session, bankFrame>>

BNext ==
    \/ \E sid \in RunIds : BCreate(sid)
    \/ \E words \in Descriptions : BTouch(words)
    \/ BStore
    \/ \E words \in Descriptions, limit \in Limits : BRetrieve(words, limit)
    \/ BStatistics
    \/ BClear

BankSpec == BInit /\ [][BNext]_vars

-----------------------------------------------------------------------------
(* Observations on a run *)

CallsOf(agent) == SelectSeq(calls, LAMBDA c : c.agent = agent)

Invoked(agent) == Len(CallsOf(agent)) > 0

RaisedIn(agent) == \E i \in 1..Len(calls) :
                      calls[i].agent = agent /\ calls[i].status = "raised"

TaskState(t) == IF t \in DOMAIN tasks THEN tasks[t] ELSE "none"

Returned1 == Len(results) = 1

\* the top-level handler caught an exception raised at cause
RaisedAt(cause) == Err("Orchestration error", cause) \in Range(errors)

\* validation or persistence raised after the last collaborator returned
FinalStepRaised == RaisedAt("_validate_artifacts") \/ RaisedAt("store_session")

Downstream == {"generate_documentation", "generate_playbook", "review_code",
               "refine_playbook", "generate_tests", "generate_pipeline"}

ParserInvalid ==
    \E i \in 1..Len(calls) :
        /\ calls[i].agent = "parse_specification"
        /\ calls[i].status = "returned"
        /\ ~calls[i].valid

-----------------------------------------------------------------------------
(* Claims *)

\* C1: when the parser returns valid=false the run returns a result with
\* success=false and an empty artifact map, and no downstream collaborator
\* (documentation, playbook, review, refine, tests, pipeline) is ever invoked.
C1_ParseFailureAborts ==
    ParserInvalid =>
        /\ Returned1
        /\ ~results[1].success
        /\ results[1].artifacts = EmptyMap
        /\ \A a \in Downstream : ~Invoked(a)
        /\ tasks = EmptyMap
        /\ validation = "not_run"

C1_Witness == ParserInvalid /\ pc = "done" /\ Returned1

\* C2: when the playbook generator raises in the fan-out, whatever the
\* documentation branch does, no reviewer, test or pipeline call is ever
\* made, a returned result has success=false and no ansible_playbook key,
\* and the run does return a result.
C2_PlaybookFailureSafe ==
    TaskState("generate_playbook") = "raised" =>
        /\ ~Invoked("review_code")
        /\ ~Invoked("generate_tests")
        /\ ~Invoked("generate_pipeline")
        /\ Len(results) <= 1
        /\ Returned1 => /\ ~results[1].success
                        /\ "ansible_playbook" \notin DOMAIN results[1].artifacts

C2_PlaybookFailureFatal ==
    /\ []C2_PlaybookFailureSafe
    /\ (TaskState("generate_playbook") = "raised") ~> (pc = "done" /\ Returned1)

C2_Witness ==
    /\ TaskState("generate_playbook") = "raised"
    /\ TaskState("generate_documentation") = "returned"
    /\ pc = "done"
    /\ Returned1

\* C3: the engine resumes from the fan-out only after both branches have
\* returned or raised: while either branch is pending or running there is no
\* reviewer call and no result, and once the engine has resumed both branches
\* were started and have finished, also when one of them raised.
C3_JoinBarrier ==
    /\ (\E t \in GatherTasks : TaskState(t) \in {"pending", "running"}) =>
            /\ pc = "await_gather"
            /\ ~Invoked("review_code")
            /\ results = <<>>
    /\ (tasks # EmptyMap /\ pc # "await_gather") =>
            \A t \in GatherTasks :
                /\ TaskState(t) \in {"returned", "raised"}
                /\ Len(CallsOf(t)) = 1
                /\ CallsOf(t)[1].status = TaskState(t)

C3_Witness ==
    /\ pc = "await_review"
    /\ TaskState("generate_documentation") = "raised"
    /\ TaskState("generate_playbook") = "returned"

DocError == Err("Documentation generation failed", "generate_documentation")

Occurrences(s, e) == Cardinality({i \in 1..Len(s) : s[i] = e})

DocRaisedOnly ==
    /\ TaskState("generate_documentation") = "raised"
    /\ TaskState("generate_playbook") = "returned"

LaterPhases == {"review_code", "refine_playbook", "generate_tests",
                "generate_pipeline"}

\* C4: when the documentation generator raises and the playbook generator
\* succeeds, the run goes on to the review; the error list holds exactly one
\* documentation-failure entry, the artifact map never has a documentation
\* key, and when no later phase raises the finished run has success=true
\* with that error still listed.
C4_DocFailureNonFatal ==
    (DocRaisedOnly /\ pc # "await_gather") =>
        /\ Invoked("review_code")
        /\ Occurrences(errors, DocError) = 1
        /\ "documentation" \notin DOMAIN artifacts
        /\ Returned1 => "documentation" \notin DOMAIN results[1].artifacts
        /\ (pc = "done" /\ ~FinalStepRaised /\ \A a \in LaterPhases : ~RaisedIn(a)) =>
                /\ Returned1
                /\ results[1].success
                /\ Occurrences(results[1].errors, DocError) = 1

C4_Witness ==
    /\ DocRaisedOnly
    /\ pc = "done"
    /\ Returned1
    /\ results[1].success
    /\ results[1].errors = <<DocError>>

Reviews == CallsOf("review_code")

Refines == CallsOf("refine_playbook")

Tests == CallsOf("generate_tests")

\* every review that has returned so far reported a critical finding
AlwaysCritical ==
    \A i \in 1..Len(Reviews) :
        Reviews[i].status = "returned" => Reviews[i].critical > 0

\* the artifact the j-th refine call produced
RefineOutput(j) == RefinedPath(Refines[j].arg)

\* C5: with a reviewer that reports a critical finding on every call, the
\* loop never makes more than max_iterations refine calls, and when the test
\* generator is invoked there were exactly max_iterations refine calls and
\* max_iterations re-reviews and it receives the output of the last refine.
C5_ExhaustionStops ==
    (AlwaysCritical /\ \A i \in 1..Len(Reviews) : Reviews[i].status # "raised") =>
        /\ Len(Refines) <= max_iterations
        /\ Len(Reviews) <= max_iterations + 1
        /\ Invoked("generate_tests") =>
              /\ Len(Refines) = max_iterations
              /\ Len(Reviews) = max_iterations + 1
              /\ Len(Tests) = 1
              /\ Tests[1].arg = RefineOutput(max_iterations)

C5_Witness ==
    /\ AlwaysCritical
    /\ Len(Reviews) = max_iterations + 1
    /\ Reviews[max_iterations + 1].status = "returned"
    /\ Invoked("generate_tests")

\* the re-review of iteration k is the first to report zero critical findings
FirstZeroAt(k) ==
    /\ Len(Reviews) >= k + 1
    /\ Reviews[k + 1].status = "returned"
    /\ Reviews[k + 1].critical = 0
    /\ \A j \in 1..k : Reviews[j].status = "returned" /\ Reviews[j].critical > 0

\* C6: when the re-review of iteration k is the first to report zero critical
\* findings, there are exactly k refine calls and k re-reviews from then on
\* and the revision of iteration k is the ansible_playbook artifact; and the
\* loop does not stop before: it is left with fewer than max_iterations
\* refine calls only when the last re-review reported zero.
C6_StopsAtFirstClean ==
    /\ \A k \in 1..max_iterations :
          FirstZeroAt(k) =>
              /\ Len(Refines) = k
              /\ Len(Reviews) = k + 1
              /\ iteration = k
              /\ artifacts["ansible_playbook"] = RefineOutput(k)
              /\ Len(Tests) = 1
              /\ Tests[1].arg = RefineOutput(k)
              /\ (Returned1 /\ results[1].success) =>
                    results[1].artifacts["ansible_playbook"] = RefineOutput(k)
    /\ (Invoked("generate_tests") /\ Len(Refines) \in 1..(max_iterations - 1)) =>
          FirstZeroAt(Len(Refines))

C6_Witness ==
    /\ FirstZeroAt(2)
    /\ pc = "done"
    /\ Returned1
    /\ results[1].success

InitialReviewReturned ==
    Len(Reviews) >= 1 /\ Reviews[1].status = "returned"

\* C7: the refinement loop is entered exactly when the initial review reports
\* critical_issues > 0; when it reports 0 no refine call is ever made and the
\* test generator receives the originally generated playbook.
C7_LoopEntry ==
    /\ Invoked("refine_playbook") => InitialReviewReturned
    /\ InitialReviewReturned =>
          /\ Invoked("refine_playbook") <=> Reviews[1].critical > 0
          /\ Reviews[1].critical = 0 =>
                /\ iteration = 0
                /\ Len(Reviews) = 1
                /\ Len(Tests) = 1
                /\ Tests[1].arg = PlaybookPath
                /\ artifacts["ansible_playbook"] = PlaybookPath

C7_Witness ==
    /\ InitialReviewReturned
    /\ Reviews[1].critical = 0
    /\ Invoked("generate_tests")
    /\ pc = "done"

\* the loop used all its iterations and critical findings remain
Exhausted ==
    /\ Len(Reviews) = max_iterations + 1
    /\ \A i \in 1..Len(Reviews) :
          Reviews[i].status = "returned" /\ Reviews[i].critical > 0

\* C8: when the loop exhausts max_iterations with critical findings left,
\* the run goes on to test generation, and when the later phases succeed it
\* ends with success=true and the last revision as ansible_playbook; an
\* exhausted run has success=false only when a later phase raised.
C8_ExhaustionNonFatal ==
    Exhausted =>
        /\ Invoked("generate_tests")
        /\ artifacts["ansible_playbook"] = RefineOutput(max_iterations)
        /\ (pc = "done" /\ ~RaisedIn("generate_tests")
                        /\ ~RaisedIn("generate_pipeline")
                        /\ ~FinalStepRaised) =>
              /\ Returned1
              /\ results[1].success
              /\ results[1].artifacts["ansible_playbook"] =
                    RefineOutput(max_iterations)
        /\ (Returned1 /\ ~results[1].success) =>
              \/ RaisedIn("generate_tests")
              \/ RaisedIn("generate_pipeline")
              \/ FinalStepRaised

C8_Witness ==
    /\ Exhausted
    /\ pc = "done"
    /\ Returned1
    /\ results[1].success

\* C9: when the test generator raises, the pipeline generator and validation
\* are never invoked and the run returns success=false; when the pipeline
\* generator raises, validation is never invoked and the run returns
\* success=false.
C9_LatePhasesFatal ==
    /\ RaisedIn("generate_tests") =>
          /\ ~Invoked("generate_pipeline")
          /\ validation = "not_run"
          /\ Returned1
          /\ ~results[1].success
    /\ RaisedIn("generate_pipeline") =>
          /\ validation = "not_run"
          /\ Returned1
          /\ ~results[1].success

C9_Witness == RaisedIn("generate_pipeline") /\ pc = "done"

\* C10: the success flag does not depend on validation: a run in which every
\* phase completed returns success=true when _validate_artifacts returned
\* true and when it returned false.
C10_ValidationNotAGate ==
    (validation \in {"passed", "failed"} /\ ~RaisedAt("store_session")) =>
        /\ Returned1
        /\ results[1].success
        /\ \A a \in {"parse_specification", "generate_playbook", "review_code",
                     "generate_tests", "generate_pipeline"} :
              Invoked(a) /\ ~RaisedIn(a)

C10_Witness ==
    /\ validation = "failed"
    /\ Returned1
    /\ results[1].success

\* the top-level handler ran: it is the only writer of these entries
HandlerRan ==
    \E i \in 1..Len(errors) : errors[i][1] = "Orchestration error"

\* the request records of this run in the collector
RunRecords ==
    {i \in 1..Len(metrics.requests) :
        metrics.requests[i].session_id = SessionId}

\* C11: whenever an exception is raised inside the run (session creation, a
\* collaborator call, the refinement loop, validation, persistence) the run
\* returns a result with success=false whose error list has an entry for
\* that exception, and every request record the collector holds for the run
\* has status failed.
C11_ExceptionRecordedFailed ==
    HandlerRan =>
        /\ pc = "done"
        /\ Returned1
        /\ ~results[1].success
        /\ \E i \in 1..Len(results[1].errors) :
                results[1].errors[i][1] = "Orchestration error"
        /\ \A i \in RunRecords : metrics.requests[i].status = "failed"


\* C12: if every collaborator call eventually returns or raises, every run
\* eventually reaches a terminal state having returned a result; no run ever
\* returns more than one result, a terminal state has exactly one, and no run
\* makes more than max_iterations refine calls.
C12_Terminates ==
    /\ <>(pc = "done" /\ Returned1)
    /\ [](Len(results) <= 1)
    /\ [](pc = "done" <=> Returned1)
    /\ [](Len(Refines) <= max_iterations)

C12_Witness ==
    /\ pc = "done"
    /\ Returned1
    /\ Len(Refines) = max_iterations

\* position of a collaborator in the order of the phases
PhaseRank(agent) ==
    CASE agent = "parse_specification" -> 1
      [] agent \in {"generate_documentation", "generate_playbook"} -> 2
      [] agent \in {"review_code", "refine_playbook"} -> 3
      [] agent = "generate_tests" -> 4
      [] agent = "generate_pipeline" -> 5

OncePerRun == {"parse_specification", "generate_documentation",
               "generate_playbook", "generate_tests", "generate_pipeline"}

PhaseOrder ==
    /\ \A i, j \in 1..Len(calls) :
          i < j =>
            /\ PhaseRank(calls[i].agent) <= PhaseRank(calls[j].agent)
            \* only the two fan-out branches overlap
            /\ calls[i].status = "running" =>
                  {calls[i].agent, calls[j].agent} = {"generate_documentation",
                                                      "generate_playbook"}
            \* a phase other than documentation that raised is the last one
            /\ calls[i].status = "raised" =>
                  calls[i].agent = "generate_documentation"
    /\ \A a \in OncePerRun : Len(CallsOf(a)) <= 1
    \* no phase is skipped
    /\ \A j \in 1..Len(calls) :
          PhaseRank(calls[j].agent) > 1 =>
             \E i \in 1..(j - 1) :
                PhaseRank(calls[i].agent) = PhaseRank(calls[j].agent) - 1
    /\ Invoked("review_code") =>
          Len(CallsOf("generate_documentation")) = 1
          /\ Len(CallsOf("generate_playbook")) = 1
    \* inside the loop refine and review alternate, starting with a review
    /\ \A i \in 1..Len(calls) :
          /\ calls[i].agent = "refine_playbook" =>
                i > 1 /\ calls[i - 1].agent = "review_code"
          /\ (calls[i].agent = "review_code" /\ i > 1) =>
                calls[i - 1].agent # "review_code"
          /\ calls[i].agent = "generate_tests" =>
                i > 1 /\ calls[i - 1].agent = "review_code"
    /\ validation # "not_run" =>
          /\ Invoked("generate_pipeline")
          /\ \A i \in 1..Len(calls) : calls[i].status = "returned"
                                      \/ calls[i].agent = "generate_documentation"

\* C13: collaborators are invoked only in the order parser, {documentation,
\* playbook generator}, reviewer, (refine, reviewer)*, test generator,
\* pipeline generator, and validation runs after the pipeline generator; a
\* phase starts only when the preceding one has finished, none is repeated
\* outside the loop, and in a terminal state nothing further is invoked or
\* validated.
C13_PhaseOrder ==
    [][/\ PhaseOrder'
       /\ pc = "done" => (calls' = calls /\ validation' = validation
                          /\ pc' = "done")]_vars

C13_Witness ==
    /\ pc = "done"
    /\ validation = "passed"
    /\ Len(Refines) = 2
    /\ Len(Reviews) = 3
    /\ TaskState("generate_documentation") = "raised"

\* C14: when the run has returned its result, every request record of the
\* run has made its one transition: it is completed when the result has
\* success=true and failed when it has success=false.
C14_RecordFollowsResult ==
    Returned1 =>
        \A i \in RunRecords :
            metrics.requests[i].status =
                IF results[1].success THEN "completed" ELSE "failed"

\* the operation called last updated a request record of run op.sid
Finishing == op.name \in {"record_request_completed", "record_request_failed"}

FinishedStatus ==
    IF op.name = "record_request_completed" THEN "completed" ELSE "failed"

\* the started records of the run the last operation found
StartedBefore == StartedIdx(op.pre, op.sid)

\* C15: when record_request_completed or record_request_failed finds several
\* started records of the run id, it changes the most recently appended one
\* and leaves the earlier ones started.
C15_UpdatesMostRecent ==
    (Finishing /\ Cardinality(StartedBefore) >= 2) =>
        LET last == CHOOSE i \in StartedBefore : \A j \in StartedBefore : j <= i
        IN  /\ metrics.requests[last].status = FinishedStatus
            /\ \A i \in StartedBefore \ {last} :
                  metrics.requests[i].status = "started"

\* C16: record_request_completed for a run id with no started record (never
\* started, or already completed or failed) leaves requests, agent_calls and
\* errors as they were, the first time and when it is called again.
C16_CompletedWithoutStartedIsNoop ==
    (op.name = "record_request_completed" /\ StartedBefore = {}) =>
        /\ metrics.requests = op.pre.requests
        /\ metrics.agent_calls = op.pre.agent_calls
        /\ metrics.errors = op.pre.errors
        /\ StartedIdx(metrics, op.sid) = {}

\* the call is the second of two in a row for a run that was completed
C16_Witness ==
    /\ op.name = "record_request_completed"
    /\ op.prev = "record_request_completed"
    /\ StartedBefore = {}
    /\ \E i \in 1..Len(metrics.requests) :
          /\ metrics.requests[i].session_id = op.sid
          /\ metrics.requests[i].status = "completed"

FailedWithoutStarted ==
    op.name = "record_request_failed" /\ StartedBefore = {}

\* C17 as stated: record_request_failed for a run id with no started record
\* leaves the whole log unchanged, and get_summary returns the same values
\* before and after.
C17_FailedWithoutStartedIsNoop ==
    FailedWithoutStarted =>
        /\ metrics = op.pre
        /\ get_summary(metrics) = get_summary(op.pre)

\* C17 amended: record_request_failed for a run id with no started record
\* leaves requests and agent_calls unchanged and appends one entry for the
\* run to errors, so get_summary differs only in total_errors, which grows
\* by one.
C17_FailedWithoutStartedLogsError ==
    FailedWithoutStarted =>
        /\ metrics.requests = op.pre.requests
        /\ metrics.agent_calls = op.pre.agent_calls
        /\ Len(metrics.errors) = Len(op.pre.errors) + 1
        /\ SubSeq(metrics.errors, 1, Len(op.pre.errors)) = op.pre.errors
        /\ metrics.errors[Len(metrics.errors)].session_id = op.sid
        /\ get_summary(metrics) =
              [get_summary(op.pre) EXCEPT !.total_errors = @ + 1]

C17_Witness ==
    /\ FailedWithoutStarted
    /\ Len(op.pre.requests) = 2
    /\ Len(metrics.errors) = 1

\* C18: get_summary reports the number of request records, the numbers of
\* completed and of failed records, success_rate = completed/total*100 (0
\* with no requests), the number of error entries, and for each collaborator
\* name the numbers of its recorded calls and of its successful ones; the
\* call changes neither the log nor the file.
C18_SummaryCounts ==
    op.name = "get_summary" =>
        LET s == op.result
            reqs == 1..Len(metrics.requests)
            done == {i \in reqs : metrics.requests[i].status = "completed"}
            bad == {i \in reqs : metrics.requests[i].status = "failed"}
            callsOf(a) == {i \in 1..Len(metrics.agent_calls) :
                              metrics.agent_calls[i].agent = a}
        IN  /\ metrics = op.pre
            /\ metrics_file = op.pre_file
            /\ s.total_requests = Cardinality(reqs)
            /\ s.completed_requests = Cardinality(done)
            /\ s.failed_requests = Cardinality(bad)
            /\ s.total_errors = Len(metrics.errors)
            /\ IF reqs = {} THEN s.success_rate = <<0, 1>>
               ELSE s.success_rate[1] * Cardinality(reqs) =
                       100 * Cardinality(done) * s.success_rate[2]
            /\ DOMAIN s.agent_statistics =
                  {a \in AgentNames : callsOf(a) # {}}
            /\ \A a \in DOMAIN s.agent_statistics :
                  /\ s.agent_statistics[a].total_calls = Cardinality(callsOf(a))
                  /\ s.agent_statistics[a].successful_calls =
                        Cardinality({i \in callsOf(a) :
                                        metrics.agent_calls[i].success})

\* one completed and one failed request: 2, 1, 1 and 50 percent
C18_Witness ==
    /\ op.name = "get_summary"
    /\ op.result.total_requests = 2
    /\ op.result.completed_requests = 1
    /\ op.result.failed_requests = 1
    /\ op.result.success_rate = <<50, 1>>
    /\ op.result.total_errors = 1

Mutators == {"record_request_started", "record_request_completed",
             "record_request_failed", "record_agent_call"}

\* C19: after each of the four recording operations the metrics file holds
\* the in-memory log, and a collector constructed on the same file after a
\* crash holds every event the crashed one had recorded.
C19_FileHoldsLog ==
    /\ op.name \in Mutators =>
          /\ metrics_file.exists
          /\ json_load(metrics_file.text) = metrics
    /\ op.name = "restart" => metrics = op.pre

\* the keys of the context_added entries of history h, oldest first
AddedKeys(h) == [i \in 1..Len(h) |-> h[i].key]

\* the session compact_context found had M distinct keys added, none
\* overwritten and none compacted away
FreshAdds(s) ==
    /\ Cardinality(Range(AddedKeys(s.history))) = Len(s.history)
    /\ DOMAIN s.context = Range(AddedKeys(s.history))
    /\ "compacted_items" \notin DOMAIN s.metadata

\* C20: after M distinct keys were added with no overwrite,
\* compact_context(keep_recent=N) with 1 <= N < M leaves in context exactly
\* the N keys added last, with their values, and metadata["compacted_items"]
\* lists exactly the other M-N keys.
C20_KeepsLastAdded ==
    (/\ op.name = "compact_context"
     /\ FreshAdds(op.pre)
     /\ 1 <= op.keep_recent
     /\ op.keep_recent < Len(op.pre.history)) =>
        LET M == Len(op.pre.history)
            N == op.keep_recent
            added == AddedKeys(op.pre.history)
            lastN == {added[i] : i \in (M - N + 1)..M}
            others == {added[i] : i \in 1..(M - N)}
        IN  /\ DOMAIN session.context = lastN
            /\ Cardinality(DOMAIN session.context) = N
            /\ \A k \in lastN : session.context[k] = op.pre.context[k]
            /\ "compacted_items" \in DOMAIN session.metadata
            /\ DOMAIN session.metadata["compacted_items"] = others
            /\ Cardinality(others) = M - N

\* four keys added in order, the last three kept
C20_Witness ==
    /\ op.name = "compact_context"
    /\ FreshAdds(op.pre)
    /\ AddedKeys(op.pre.history) = <<"key_0", "key_1", "key_2", "key_3">>
    /\ op.keep_recent = 3
    /\ DOMAIN session.context = {"key_1", "key_2", "key_3"}
    /\ DOMAIN session.metadata["compacted_items"] = {"key_0"}

\* index of the last context_added entry of key k in history h
LastTouch(h, k) == CHOOSE i \in 1..Len(h) :
                      h[i].key = k /\ \A j \in (i + 1)..Len(h) : h[j].key # k

\* the first n distinct keys met when h is read from newest to oldest: the
\* keys with fewer than n distinct keys touched after their last touch
FirstDistinct(h, n) ==
    {k \in Range(AddedKeys(h)) :
        Cardinality({h[j].key : j \in (LastTouch(h, k) + 1)..Len(h)}) < n}

\* the last call was a compact_context that found more keys than keep_recent
Compacting ==
    /\ op.name = "compact_context"
    /\ Cardinality(DOMAIN op.pre.context) > op.keep_recent

\* C21: a compaction retains exactly the first N distinct keys met when
\* history is read from newest to oldest, so a key is ranked by its last
\* add_context call: a key re-added after newer keys is kept in preference
\* to keys whose last touch is older.
C21_RankedByLastTouch ==
    Compacting =>
        /\ DOMAIN session.context = FirstDistinct(op.pre.history, op.keep_recent)
        /\ \A k \in DOMAIN session.context :
              \A d \in DOMAIN op.pre.context \ DOMAIN session.context :
                  LastTouch(op.pre.history, k) > LastTouch(op.pre.history, d)

IsPrefix(a, b) == Len(a) <= Len(b) /\ SubSeq(b, 1, Len(a)) = a

\* C22: after any sequence of add_context and compact_context calls every
\* key of context has a context_added entry in history, and each operation
\* leaves the history it found as a prefix of the new one: history is never
\* cut or rewritten, also when context is compacted.
C22_HistoryOnlyGrows ==
    /\ \A k \in DOMAIN session.context :
          \E i \in 1..Len(session.history) :
              /\ session.history[i].action = "context_added"
              /\ session.history[i].key = k
    /\ op.name # "none" => IsPrefix(op.pre.history, session.history)

\* a compaction that dropped three of four keys and left history whole
C22_Witness ==
    /\ Compacting
    /\ Len(op.pre.history) = 4
    /\ Cardinality(DOMAIN op.pre.context) = 4
    /\ Cardinality(DOMAIN session.context) = 1
    /\ session.history = op.pre.history

\* C27: each add_context(key, value), on a new key or an existing one,
\* appends exactly one history entry with action context_added and that
\* key, after which get_context(key) returns value; the length of history
\* is the number of add_context calls made, and get_context changes nothing.
C27_AddAppendsOneEntry ==
    /\ op.name = "add_context" =>
          /\ session.history =
                Append(op.pre.history,
                       [action |-> "context_added", key |-> op.key])
          /\ get_context(session, op.key, NoPath) = op.value
    /\ Len(session.history) = tally.adds
    /\ op.name = "get_context" =>
          /\ session = op.pre
          /\ op.key \in DOMAIN session.context =>
                op.result = session.context[op.key]

\* an existing key is overwritten with another value
C27_Witness ==
    /\ op.name = "add_context"
    /\ op.key \in DOMAIN op.pre.context
    /\ op.pre.context[op.key] # op.value
    /\ session.context[op.key] = op.value
    /\ tally.adds = 3

RECURSIVE SumSeq(_)
SumSeq(s) == IF s = <<>> THEN 0 ELSE s[1] + SumSeq(Tail(s))

\* C28: after any sequence of increment_metric calls get_metric(name) is the
\* sum of the amounts passed for that name; for a name never incremented
\* get_metric returns the default 0, and no get_metric call creates a
\* counter or changes the session.
C28_MetricIsSumOfAmounts ==
    /\ \A name \in MetricNames :
          get_metric(session, name, 0) = SumSeq(AmountsFor(name))
    /\ DOMAIN session.metrics = DOMAIN tally.amounts
    /\ op.name = "get_metric" =>
          /\ session = op.pre
          /\ op.result = SumSeq(AmountsFor(op.metric_name))
          /\ AmountsFor(op.metric_name) = <<>> =>
                /\ op.result = 0
                /\ op.metric_name \notin DOMAIN session.metrics

\* a counter raised by 5, 1 and 5 reads 11 while the other name reads 0
C28_Witness ==
    /\ op.name = "get_metric"
    /\ op.metric_name = "tokens_used"
    /\ op.result = 0
    /\ AmountsFor("agent_calls") = <<5, 1, 5>>
    /\ get_metric(session, "agent_calls", 0) = 11
    /\ DOMAIN session.metrics = {"agent_calls"}

\* C29: compact_context(keep_recent=N) on a context with at most N keys
\* changes nothing: context, history, metrics and metadata, with the
\* compacted_items an earlier compaction left, stay as they were.
C29_CompactWithinLimitIsNoop ==
    (/\ op.name = "compact_context"
     /\ Cardinality(DOMAIN op.pre.context) <= op.keep_recent) =>
        /\ session.context = op.pre.context
        /\ session.history = op.pre.history
        /\ session.metrics = op.pre.metrics
        /\ session.metadata = op.pre.metadata

\* two keys are left of an earlier compaction that dropped key_0
C29_Witness ==
    /\ op.name = "compact_context"
    /\ op.keep_recent = 2
    /\ Cardinality(DOMAIN op.pre.context) = 2
    /\ "compacted_items" \in DOMAIN op.pre.metadata
    /\ DOMAIN op.pre.metadata["compacted_items"] = {"key_0"}
    /\ session.metadata = op.pre.metadata

\* C25: a failed result carries the artifacts produced before the failure:
\* its artifact map is the map the run had built when it failed, so it has
\* the documentation when only the playbook generator failed, and the
\* playbook and the review report when test or pipeline generation raised.
C25_FailedResultKeepsArtifacts ==
    (Returned1 /\ ~results[1].success) =>
        /\ results[1].artifacts = artifacts
        /\ (TaskState("generate_documentation") = "returned"
            /\ TaskState("generate_playbook") = "raised") =>
                "documentation" \in DOMAIN results[1].artifacts
        /\ (RaisedIn("generate_tests") \/ RaisedIn("generate_pipeline")) =>
                {"ansible_playbook", "code_review"} \subseteq
                    DOMAIN results[1].artifacts

\* C26: every iteration of the refinement loop is followed by
\* compact_context(keep_recent=3), the iteration that reaches zero critical
\* findings included, so when the loop has run at least once the context
\* holds at most 3 keys when the loop returns (refined_playbook is added
\* after the return, before the test generator is called).
C26_CompactedWhenLoopReturns ==
    (pc = "await_tests" /\ Len(Refines) >= 1) =>
        Cardinality(DOMAIN session.context \ {"refined_playbook"})
            <= loop_keep_recent

AnsibleError == Err("Ansible generation failed", "generate_playbook")

\* C30: the error list of a failed result is the list of the errors noted
\* in the run, in the order they were recorded: the documentation error and
\* then the playbook-generation error when both fan-out branches fail, the
\* documentation error and then the orchestration error when a later phase
\* raises after a documentation failure.
C30_ErrorsAccumulateInOrder ==
    (Returned1 /\ ~results[1].success) =>
        /\ results[1].errors = errors
        /\ (TaskState("generate_documentation") = "raised"
            /\ TaskState("generate_playbook") = "raised") =>
                results[1].errors = <<DocError, AnsibleError>>
        /\ (DocRaisedOnly /\ HandlerRan) =>
                /\ Len(results[1].errors) = 2
                /\ results[1].errors[1] = DocError
                /\ results[1].errors[2][1] = "Orchestration error"

\* the documentation branch raised and later the pipeline generator did
C30_Witness ==
    /\ DocRaisedOnly
    /\ RaisedIn("generate_pipeline")
    /\ Returned1
    /\ results[1].errors =
          <<DocError, Err("Orchestration error", "generate_pipeline")>>

\* the spans end_trace found open for its run id and operation
OpenBefore == OpenSpans(op.pre, op.sid, op.operation)

\* C23: end_trace(run_id, op) closes exactly one span, the most recently
\* started span of the run id with that operation and status running;
\* earlier open spans of the operation, spans of other operations and spans
\* of other run ids are unchanged, and with no such span nothing changes.
C23_ClosesInnermostSpan ==
    op.name = "end_trace" =>
        IF OpenBefore = {} THEN traces = op.pre
        ELSE LET last == CHOOSE i \in OpenBefore : \A j \in OpenBefore : j <= i
             IN  /\ DOMAIN traces = DOMAIN op.pre
                 /\ \A sid \in DOMAIN traces :
                       /\ Len(traces[sid]) = Len(op.pre[sid])
                       /\ \A i \in 1..Len(traces[sid]) :
                             (sid # op.sid \/ i # last) =>
                                 traces[sid][i] = op.pre[sid][i]
                 /\ traces[op.sid][last].operation = op.operation
                 /\ traces[op.sid][last].status =
                       IF op.success THEN "completed" ELSE "failed"

\* two spans of the operation were open: the later one is closed, the
\* earlier one still runs
C23_Witness ==
    /\ op.name = "end_trace"
    /\ Cardinality(OpenBefore) = 2
    /\ Len(traces[op.sid]) = 3
    /\ traces[op.sid][1].status = "running"
    /\ traces[op.sid][1].operation = op.operation
    /\ traces[op.sid][2].operation # op.operation
    /\ traces[op.sid][3].status = "completed"

\* C24: once store_session has stored a snapshot under a run id, only
\* clear_memory_bank changes or removes that entry: a later store_session
\* for the same or another run id, a write to the live session,
\* retrieve_similar_sessions and get_statistics all leave it as it was.
C24_StoredEntryIsFrozen ==
    op.name \notin {"none", "clear_memory_bank"} =>
        \A sid \in DOMAIN op.pre :
            /\ sid \in DOMAIN memory_bank
            /\ memory_bank[sid] = op.pre[sid]

\* C31: in iteration i of the refinement loop the refine call receives the
\* artifact of iteration i-1 (the generated playbook when i = 1) and an
\* instruction built from the critical findings of the most recent review:
\* the initial review when i = 1, the re-review of iteration i-1 otherwise.
C31_RefineInputs ==
    \A i \in 1..Len(Refines) :
        /\ Refines[i].arg = IF i = 1 THEN PlaybookPath ELSE RefineOutput(i - 1)
        /\ Len(Reviews) >= i
        /\ Reviews[i].status = "returned"
        /\ Refines[i].prompt.critical = Reviews[i].critical
        /\ Refines[i].prompt.iteration = i

\* the second refine call follows a re-review that found fewer critical
\* issues than the initial review
C31_Witness ==
    /\ Len(Refines) = 2
    /\ Reviews[1].critical = 2
    /\ Reviews[2].critical = 1
    /\ Refines[2].prompt = create_refinement_prompt(1, 2)
    /\ Refines[2].arg = RefinedPath(PlaybookPath)

\* C32: a run that returns success=true has stored its session in the
\* memory bank exactly once, in the step that follows validation and returns
\* the result; a run that returns success=false never stores it.
C32_StoredOnceOnSuccess ==
    /\ [](Returned1 =>
            /\ results[1].success =>
                  /\ DOMAIN memory_bank = {SessionId}
                  /\ memory_bank[SessionId] = to_dict(session)
            /\ ~results[1].success => memory_bank = EmptyMap)
    /\ [][memory_bank' # memory_bank =>
            /\ memory_bank = EmptyMap
            /\ memory_bank' = store_session(memory_bank, session')
            /\ validation = "not_run"
            /\ validation' \in {"passed", "failed"}
            /\ results = <<>>
            /\ Len(results') = 1
            /\ results'[1].success]_vars

\* a successful run whose validation found artifacts missing
C32_Witness ==
    /\ Returned1
    /\ results[1].success
    /\ validation = "failed"
    /\ SessionId \in DOMAIN memory_bank

\* C33: when the refinement loop exhausts max_iterations with critical
\* findings remaining, the returned error list has an entry for the
\* unresolved critical issues, so the result of an exhausted run differs
\* from the result of a run whose refinement converged.
C33_ExhaustionRecorded ==
    (Exhausted /\ Returned1) =>
        \E i \in 1..Len(results[1].errors) :
            results[1].errors[i][1] = "Unresolved critical issues"

\* C34: for N >= 1, compact_context(keep_recent=N) on a context with more
\* than N keys leaves exactly N keys, whatever add_context and
\* compact_context calls came before; every retained key has the value it
\* had before the call and no key is added.
C34_LeavesExactlyN ==
    (Compacting /\ op.keep_recent >= 1) =>
        /\ Cardinality(DOMAIN session.context) = op.keep_recent
        /\ DOMAIN session.context \subseteq DOMAIN op.pre.context
        /\ \A k \in DOMAIN session.context :
              session.context[k] = op.pre.context[k]

\* a compaction to 2 keys of a session that was compacted before and
\* written to since
C34_Witness ==
    /\ Compacting
    /\ op.keep_recent = 2
    /\ "compacted_items" \in DOMAIN op.pre.metadata
    /\ Cardinality(DOMAIN op.pre.context) = 3
    /\ Cardinality(DOMAIN session.context) = 2

\* C35: compact_context(keep_recent=N) leaves at most N keys in context for
\* every N >= 0, and compact_context(keep_recent=0) leaves the context
\* empty.
C35_AtMostN ==
    op.name = "compact_context" =>
        /\ Cardinality(DOMAIN session.context) <= op.keep_recent
        /\ op.keep_recent = 0 => session.context = EmptyMap

\* C36: a compaction that drops keys replaces metadata["compacted_items"]:
\* after the call it lists exactly the keys this call dropped, with the type
\* names of their values, and nothing an earlier compaction listed.
C36_CompactedItemsReplaced ==
    (/\ op.name = "compact_context"
     /\ DOMAIN session.context # DOMAIN op.pre.context) =>
        /\ "compacted_items" \in DOMAIN session.metadata
        /\ DOMAIN session.metadata["compacted_items"] =
              DOMAIN op.pre.context \ DOMAIN session.context
        /\ \A k \in DOMAIN session.metadata["compacted_items"] :
              session.metadata["compacted_items"][k] =
                  TypeName(op.pre.context[k])

\* the compaction before dropped key_0, this one dropped key_1 only
C36_Witness ==
    /\ op.name = "compact_context"
    /\ "compacted_items" \in DOMAIN op.pre.metadata
    /\ DOMAIN op.pre.metadata["compacted_items"] = {"key_0"}
    /\ DOMAIN op.pre.context = {"key_1", "key_2"}
    /\ DOMAIN session.context = {"key_2"}
    /\ DOMAIN session.metadata["compacted_items"] = {"key_1"}

\* C37: every result with success=true has the artifacts ansible_playbook,
\* inventory, code_review, tests and cicd_pipeline, whatever validation
\* returned, and has the documentation artifact exactly when the
\* documentation branch returned without raising.
C37_SuccessArtifacts ==
    (Returned1 /\ results[1].success) =>
        /\ {"ansible_playbook", "inventory", "code_review", "tests",
            "cicd_pipeline"} \subseteq DOMAIN results[1].artifacts
        /\ "documentation" \in DOMAIN results[1].artifacts <=>
              TaskState("generate_documentation") = "returned"
        /\ DOMAIN results[1].artifacts \subseteq
              {"ansible_playbook", "inventory", "code_review", "tests",
               "cicd_pipeline", "documentation"}

\* a successful run without documentation whose validation failed
C37_Witness ==
    /\ Returned1
    /\ results[1].success
    /\ validation = "failed"
    /\ TaskState("generate_documentation") = "raised"
    /\ DOMAIN results[1].artifacts =
          {"ansible_playbook", "inventory", "code_review", "tests",
           "cicd_pipeline"}

\* C38: whenever a run completes with success=true, the session snapshot
\* stored in the memory bank has the parsed_spec context key, also when the
\* refinement loop compacted the context.
C38_SnapshotHasParsedSpec ==
    (Returned1 /\ results[1].success) =>
        /\ SessionId \in DOMAIN memory_bank
        /\ "parsed_spec" \in DOMAIN memory_bank[SessionId].context

\* the refine call or a re-review inside the refinement loop raised
LoopRaised ==
    \/ RaisedIn("refine_playbook")
    \/ \E i \in 2..Len(Reviews) : Reviews[i].status = "raised"

\* C39: an exception raised by the refine call or by a re-review inside the
\* refinement loop is not absorbed by the loop: the run returns
\* success=false with the orchestration error as its last error, and the
\* test generator and the pipeline generator are never invoked.
C39_LoopExceptionAborts ==
    LoopRaised =>
        /\ pc = "done"
        /\ Returned1
        /\ ~results[1].success
        /\ results[1].errors # <<>>
        /\ results[1].errors[Len(results[1].errors)] =
              Err("Orchestration error",
                  IF RaisedIn("refine_playbook") THEN "refine_playbook"
                  ELSE "review_code")
        /\ ~Invoked("generate_tests")
        /\ ~Invoked("generate_pipeline")

\* the re-review of the second iteration raised
C39_Witness ==
    /\ Len(Reviews) = 3
    /\ Reviews[3].status = "raised"
    /\ Len(Refines) = 2
    /\ Returned1
    /\ ~results[1].success

\* C40: an operation of a collector never changes a request record that is
\* completed or failed, and never removes or reorders records: each of the
\* three logs keeps the records it had, in place, a request record changes
\* only from started to completed or failed, hence at most once.
C40_LogsOnlyGrow ==
    op.name \in Mutators \cup {"get_summary"} =>
        /\ IsPrefix(op.pre.agent_calls, metrics.agent_calls)
        /\ IsPrefix(op.pre.errors, metrics.errors)
        /\ Len(op.pre.requests) <= Len(metrics.requests)
        /\ \A i \in 1..Len(op.pre.requests) :
              /\ metrics.requests[i].session_id = op.pre.requests[i].session_id
              /\ op.pre.requests[i].status \in {"completed", "failed"} =>
                    metrics.requests[i] = op.pre.requests[i]
              /\ metrics.requests[i] # op.pre.requests[i] =>
                    /\ op.pre.requests[i].status = "started"
                    /\ metrics.requests[i].status \in {"completed", "failed"}

\* record_request_failed for a run whose only record is completed, with a
\* started record of another run in the log
C40_Witness ==
    /\ op.name = "record_request_failed"
    /\ Len(op.pre.requests) = 2
    /\ op.pre.requests[1].session_id = op.sid
    /\ op.pre.requests[1].status = "completed"
    /\ op.pre.requests[2].session_id # op.sid
    /\ op.pre.requests[2].status = "started"
    /\ metrics.requests = op.pre.requests
    /\ Len(metrics.errors) = Len(op.pre.errors) + 1

====
